---- MODULE Spec2Model ----
(***************************************************************************)
(* os_purge_project: purge of every resource of an OpenStack project.      *)
(* One run of main() is modelled as a sequential process; every remote     *)
(* call of the run is one step and is appended, with its outcome, to the   *)
(* history `calls`.  The cloud behind the SDK is a sequence of resource    *)
(* records; a remote call either returns, raises ConflictException or      *)
(* raises another exception.                                               *)
(***************************************************************************)
EXTENDS Integers, Sequences, FiniteSets, TLC

VARIABLES
    cloud,           \* resources existing in the cloud, in listing order
    projects,        \* projects existing in the identity service
    check_mode,      \* module.check_mode
    keep_project,    \* module.params['keep_project']
    pc,              \* position of the run inside main()
    project_id,      \* main: project_id
    resource_ix,     \* main: position of `resource` in RESOURCES
    resources_info,  \* main: resources_info
    i,               \* delete_resources: position of `res` in resources_info
    interfaces,      \* handle_router_deletion: interfaces
    j,               \* handle_router_deletion: position of `iface`
    floating_ip,     \* handle_port_deletion: floating_ip
    calls,           \* history of the remote calls issued, with their outcome
    warnings,        \* messages passed to module.warn
    result,          \* what exit_json / fail_json reported
    exc,             \* the exception that ended the run, as first raised
    faults           \* number of remote calls that raised so far

vars == <<cloud, projects, check_mode, keep_project, pc, project_id,
          resource_ix, resources_info, i, interfaces, j, floating_ip,
          calls, warnings, result, exc, faults>>

-----------------------------------------------------------------------------
(* Bounds of the model *)

MaxPorts == 2      \* ports existing in the cloud
MaxKinds == 3      \* leading kinds of PopulatedKinds that hold a resource of the project
MaxFaults == 2     \* remote calls that raise during one run

-----------------------------------------------------------------------------
(* Tables of the module *)

None == "None"

\* The order with router moved before port
RESOURCES_RouterFirst ==
    << "server", "volume", "snapshot", "image", "router", "port", "network",
       "subnet", "security_group", "floating_ip", "keypair", "stack" >>

RESOURCES ==
    << "server", "volume", "snapshot", "image", "port", "network", "subnet",
       "router", "security_group", "floating_ip", "keypair", "stack" >>

RESOURCE_METHODS ==
    [ server         |-> << "compute", "servers", "delete_server" >>,
      volume         |-> << "block_storage", "volumes", "delete_volume" >>,
      snapshot       |-> << "block_storage", "snapshots", "delete_snapshot" >>,
      image          |-> << "image", "images", "delete_image" >>,
      port           |-> << "network", "ports", "delete_port" >>,
      network        |-> << "network", "networks", "delete_network" >>,
      subnet         |-> << "network", "subnets", "delete_subnet" >>,
      router         |-> << "network", "routers", "delete_router" >>,
      security_group |-> << "network", "security_groups", "delete_security_group" >>,
      floating_ip    |-> << "network", "ips", "delete_ip" >>,
      keypair        |-> << "compute", "keypairs", "delete_keypair" >>,
      stack          |-> << "orchestration", "stacks", "delete_stack" >> ]

Kinds == DOMAIN RESOURCE_METHODS

project_name == "demo"

-----------------------------------------------------------------------------
(* The cloud behind the SDK connection *)

\* What each listing and each delete operation of the SDK works on.
SdkCollection ==
    [ servers |-> "server", volumes |-> "volume", snapshots |-> "snapshot",
      images |-> "image", ports |-> "port", networks |-> "network",
      subnets |-> "subnet", routers |-> "router",
      security_groups |-> "security_group", ips |-> "floating_ip",
      keypairs |-> "keypair", stacks |-> "stack" ]

SdkDelete ==
    [ delete_server |-> "server", delete_volume |-> "volume",
      delete_snapshot |-> "snapshot", delete_image |-> "image",
      delete_port |-> "port", delete_network |-> "network",
      delete_subnet |-> "subnet", delete_router |-> "router",
      delete_security_group |-> "security_group", delete_ip |-> "floating_ip",
      delete_keypair |-> "keypair", delete_stack |-> "stack" ]

Blank(id, kind) ==
    [ id |-> id, kind |-> kind, project_id |-> None, owner |-> None,
      device_owner |-> "", device_id |-> "", fixed_ips |-> << >>,
      address |-> "", port_id |-> None ]

\* Images carry their project in `owner`, every other kind in `project_id`.
Owned(id, kind, proj) ==
    IF kind = "image" THEN [Blank(id, kind) EXCEPT !.owner = proj]
    ELSE [Blank(id, kind) EXCEPT !.project_id = proj]

\* The ports the model draws from; the last one belongs to another project
\* and is attached to the router of the purged project.
PortShapes ==
    << [project |-> "P1", device_owner |-> "network:router_interface",
        device_id |-> "r1", fixed_ips |-> << "a3" >>],
       [project |-> "P1", device_owner |-> "network:router_gateway",
        device_id |-> "r1", fixed_ips |-> << "a3" >>],
       [project |-> "P1", device_owner |-> "compute:nova",
        device_id |-> "s1", fixed_ips |-> << "a3" >>],
       [project |-> "P1", device_owner |-> "network:floatingip",
        device_id |-> "", fixed_ips |-> << "a1", "a2" >>],
       [project |-> "P1", device_owner |-> "network:floatingip",
        device_id |-> "", fixed_ips |-> << "a3" >>],
       [project |-> "P1", device_owner |-> "network:floatingip",
        device_id |-> "", fixed_ips |-> << >>],
       [project |-> "P2", device_owner |-> "network:router_interface",
        device_id |-> "r1", fixed_ips |-> << "a3" >>] >>

\* The choices of up to MaxPorts ports, listed in the order of PortShapes
PortChoices ==
    UNION { { ps \in [1..n -> 1..Len(PortShapes)] :
                \A a, b \in 1..n : a < b => ps[a] <= ps[b] } : n \in 0..MaxPorts }

PortIds == << "p1", "p2", "p3", "p4" >>

MkPort(id, shape) ==
    [Owned(id, "port", shape.project) EXCEPT
        !.device_owner = shape.device_owner,
        !.device_id = shape.device_id,
        !.fixed_ips = shape.fixed_ips]

MkFip(id, proj, addr, port) ==
    [Owned(id, "floating_ip", proj) EXCEPT !.address = addr, !.port_id = port]

\* The kinds other than port, in the order the model populates them
PopulatedKinds ==
    << "router", "floating_ip", "image", "server", "stack", "network",
       "volume", "snapshot", "subnet", "security_group", "keypair" >>

\* The resource of the project of one kind: router r1, floating IP f1 at a1
MkOwn(kind) ==
    IF kind = "router" THEN Owned("r1", "router", "P1")
    ELSE IF kind = "floating_ip" THEN MkFip("f1", "P1", "a1", "p1")
    ELSE Owned("x_" \o kind, kind, "P1")

\* The clouds a run may start from: a resource of the project for each of the
\* first m <= MaxKinds kinds of PopulatedKinds, up to MaxPorts ports, and the
\* resources of another project P2.
Clouds ==
    { [n \in 1..m |-> MkOwn(PopulatedKinds[n])]
        \o [n \in 1..Len(ps) |-> MkPort(PortIds[n], PortShapes[ps[n]])]
        \o << MkFip("f2", "P2", "a2", "p9"),
              Owned("n9", "network", "P2"),
              Owned("i9", "image", "P2") >> :
        m \in 0..MaxKinds,
        ps \in PortChoices }

\* conn.<client>.<list_method>(filters={key: value})
SdkList(c, method, key, value) ==
    LET Match(r) == r.kind = SdkCollection[method] /\ r[key] = value
    IN  SelectSeq(c, Match)

\* conn.<client>.<delete_method>(id)
SdkRemove(c, method, id) ==
    LET Keep(r) == ~(r.kind = SdkDelete[method] /\ r.id = id)
    IN  SelectSeq(c, Keep)

\* conn.network.find_ip(name_or_id): the floating IPs with that address or id
SdkFindIp(c, name_or_id) ==
    LET Match(r) == r.kind = "floating_ip"
                    /\ (r.address = name_or_id \/ r.id = name_or_id)
    IN  SelectSeq(c, Match)

\* conn.network.remove_interface_from_router(router_id, port_id=...):
\* the port is no longer attached to the router
SdkDetach(c, router_id, port) ==
    [n \in 1..Len(c) |->
        IF c[n].kind = "port" /\ c[n].id = port /\ c[n].device_id = router_id
        THEN [c[n] EXCEPT !.device_id = "", !.device_owner = ""]
        ELSE c[n]]

\* conn.network.update_router(router_id, external_gateway_info=None):
\* the gateway ports of the router are no longer attached to it
SdkClearGateway(c, router_id) ==
    [n \in 1..Len(c) |->
        IF c[n].kind = "port" /\ c[n].device_id = router_id
           /\ c[n].device_owner = "network:router_gateway"
        THEN [c[n] EXCEPT !.device_id = "", !.device_owner = ""]
        ELSE c[n]]

\* conn.network.update_ip(id, port_id=None)
SdkDisassociate(c, id) ==
    [n \in 1..Len(c) |->
        IF c[n].kind = "floating_ip" /\ c[n].id = id
        THEN [c[n] EXCEPT !.port_id = None]
        ELSE c[n]]

-----------------------------------------------------------------------------
(* Calls, exceptions and reports *)

Call(method, id, key, value, details, outcome, returned) ==
    [ method |-> method, id |-> id, key |-> key, value |-> value,
      details |-> details, outcome |-> outcome, returned |-> returned ]

Raises == {"ConflictException", "SDKException"}

\* An exception raised by the SDK and its str()
SdkError(type, method, id) ==
    [ type |-> type, msg |-> << type, method, id >> ]

NoException == [ type |-> None, msg |-> << >> ]

NoResult == [ failed |-> FALSE, changed |-> FALSE, msg |-> << >> ]

fail_json(msg) == [ failed |-> TRUE, changed |-> FALSE, msg |-> msg ]

exit_json(changed, msg) == [ failed |-> FALSE, changed |-> changed, msg |-> msg ]

-----------------------------------------------------------------------------
(* Decisions of the code *)

resource == RESOURCES[resource_ix]

list_method(kind) == RESOURCE_METHODS[kind][2]

delete_method(kind) == RESOURCE_METHODS[kind][3]

\* gather_resource_info: the filter of the listing and its details flag
\* Every kind filtered by project_id, image included
FilterKey_AlwaysProjectId(kind) ==
    "project_id"

FilterKey(kind) == IF kind = "image" THEN "owner" ELSE "project_id"

Detailed(kind) == kind \in {"server", "volume", "snapshot"}

\* gather_resource_info: the exception it re-raises
WrapGather(kind, e) == << "Failed to gather ", kind, "s information: " >> \o e.msg

\* delete_resources: the exception it re-raises
WrapDelete(kind, e) == << "Failed to delete ", kind, "s: " >> \o e.msg

\* An except clause that catches nothing
CatchesConflict_Never(e) == FALSE

\* An except clause that catches every exception
CatchesConflict_Any(e) == TRUE

\* handle_port_deletion: except ConflictException
CatchesConflict(e) == e.type = "ConflictException"

WarnMsg(port, e) == << "Failed to delete port ", port.id, ": " >> \o e.msg

\* The dispatch without the router_interface case
PortBranch_NoInterface(port) ==
    IF port.device_owner = "network:router_gateway" THEN "router_gateway"
    ELSE IF port.device_owner = "network:floatingip" THEN "floatingip"
    ELSE "plain"

\* The dispatch without the router_gateway case
PortBranch_NoGateway(port) ==
    IF port.device_owner = "network:router_interface" THEN "router_interface"
    ELSE IF port.device_owner = "network:floatingip" THEN "floatingip"
    ELSE "plain"

\* handle_port_deletion: the branch taken for a port
PortBranch(port) ==
    IF port.device_owner = "network:router_interface" THEN "router_interface"
    ELSE IF port.device_owner = "network:router_gateway" THEN "router_gateway"
    ELSE IF port.device_owner = "network:floatingip" THEN "floatingip"
    ELSE "plain"

\* The address taken from the last fixed IP instead of the first
FirstFixedIp_Last(port) == port.fixed_ips[Len(port.fixed_ips)]

\* port.fixed_ips[0]['ip_address']
FirstFixedIp(port) == port.fixed_ips[1]

\* The loop over the interfaces left after its first iteration
InterfacesDone_First(ifaces, n) == n > 1

\* handle_router_deletion: for iface in interfaces is exhausted
InterfacesDone(ifaces, n) == n > Len(ifaces)

\* The message without the name
NotFoundMsg_NoName(name) == << "Project not found" >>

NotFoundMsg(name) == << "Project ", name, " not found" >>

CheckModeMsg == << "Project resources would be purged in check mode" >>

PurgedMsg(name) == << "Project ", name, " purged successfully" >>

\* What a remote call may do: return, or raise while the fault budget lasts
Outcomes == {"ok"} \cup (IF faults < MaxFaults THEN Raises ELSE {})

Logged(c, o) ==
    /\ calls' = Append(calls, c)
    /\ faults' = IF o = "ok" THEN faults ELSE faults + 1

\* main: except Exception as e: module.fail_json(msg=str(e))
Abort(e, msg) ==
    /\ pc' = "done"
    /\ result' = fail_json(msg)
    /\ exc' = e

\* The port tried again after a caught conflict
PortRaise_Retry(port, e) ==
    IF CatchesConflict(e)
    THEN /\ warnings' = Append(warnings, WarnMsg(port, e))
         /\ i' = i
         /\ pc' = "delete"
         /\ UNCHANGED << result, exc >>
    ELSE /\ Abort(e, WrapDelete("port", e))
         /\ UNCHANGED << warnings, i >>

\* handle_port_deletion: an exception raised inside its try block
PortRaise(port, e) ==
    IF CatchesConflict(e)
    THEN /\ warnings' = Append(warnings, WarnMsg(port, e))
         /\ i' = i + 1
         /\ pc' = "delete"
         /\ UNCHANGED << result, exc >>
    ELSE /\ Abort(e, WrapDelete("port", e))
         /\ UNCHANGED << warnings, i >>

-----------------------------------------------------------------------------
(* The run *)

\* handle_port_deletion: floating_ip before find_ip has bound it, a record
\* like the ones find_ip returns so that the variable has one type
NoFloatingIp == Blank(None, "floating_ip")

Init ==
    /\ cloud \in Clouds
    /\ projects \in { { [name |-> "demo", id |-> "P1"], [name |-> "other", id |-> "P2"] },
                      { [name |-> "other", id |-> "P2"] } }
    /\ check_mode \in BOOLEAN
    /\ keep_project \in BOOLEAN
    /\ pc = "find_project"
    /\ project_id = None
    /\ resource_ix = 1
    /\ resources_info = << >>
    /\ i = 1
    /\ interfaces = << >>
    /\ j = 1
    /\ floating_ip = NoFloatingIp
    /\ calls = << >>
    /\ warnings = << >>
    /\ result = NoResult
    /\ exc = NoException
    /\ faults = 0

\* The run going on to the purge in check mode too
FindProject_NoCheckMode ==
    /\ pc = "find_project"
    /\ \E o \in Outcomes :
        LET found == {p \in projects : p.name = project_name}
            e == SdkError(o, "find_project", project_name)
        IN  IF o # "ok"
            THEN /\ Logged(Call("find_project", project_name, "", "", FALSE, o, << >>), o)
                 /\ Abort(e, e.msg)
                 /\ UNCHANGED project_id
            ELSE IF found = {}
            THEN /\ Logged(Call("find_project", project_name, "", "", FALSE, "none", << >>), o)
                 /\ pc' = "done"
                 /\ result' = fail_json(NotFoundMsg(project_name))
                 /\ UNCHANGED << project_id, exc >>
            ELSE /\ Logged(Call("find_project", project_name, "", "", FALSE, o, << >>), o)
                 /\ project_id' = (CHOOSE p \in found : TRUE).id
                 /\ pc' = "gather"
                 /\ UNCHANGED << result, exc >>
    /\ UNCHANGED << cloud, projects, check_mode, keep_project, resource_ix,
                    resources_info, i, interfaces, j, floating_ip, warnings >>

\* main, lines 107-118: resolve the project, stop in check mode
FindProject ==
    /\ pc = "find_project"
    /\ \E o \in Outcomes :
        LET found == {p \in projects : p.name = project_name}
            e == SdkError(o, "find_project", project_name)
        IN  IF o # "ok"
            THEN /\ Logged(Call("find_project", project_name, "", "", FALSE, o, << >>), o)
                 /\ Abort(e, e.msg)
                 /\ UNCHANGED project_id
            ELSE IF found = {}
            THEN /\ Logged(Call("find_project", project_name, "", "", FALSE, "none", << >>), o)
                 /\ pc' = "done"
                 /\ result' = fail_json(NotFoundMsg(project_name))
                 /\ UNCHANGED << project_id, exc >>
            ELSE /\ Logged(Call("find_project", project_name, "", "", FALSE, o, << >>), o)
                 /\ project_id' = (CHOOSE p \in found : TRUE).id
                 /\ IF check_mode
                    THEN /\ pc' = "done"
                         /\ result' = exit_json(TRUE, CheckModeMsg)
                    ELSE /\ pc' = "gather"
                         /\ UNCHANGED result
                 /\ UNCHANGED exc
    /\ UNCHANGED << cloud, projects, check_mode, keep_project, resource_ix,
                    resources_info, i, interfaces, j, floating_ip, warnings >>

\* main, lines 120-125 with gather_resource_info: list the resources of one kind
GatherResourceInfo ==
    /\ pc = "gather"
    /\ resource_ix <= Len(RESOURCES)
    /\ \E o \in Outcomes :
        LET m == list_method(resource)
            listed == SdkList(cloud, m, FilterKey(resource), project_id)
            c == Call(m, "", FilterKey(resource), project_id, Detailed(resource),
                      o, IF o = "ok" THEN listed ELSE << >>)
            e == SdkError(o, m, "")
        IN  /\ Logged(c, o)
            /\ IF o # "ok"
               THEN /\ Abort(e, WrapGather(resource, e))
                    /\ UNCHANGED << resources_info, i, resource_ix >>
               ELSE /\ resources_info' = listed
                    /\ i' = 1
                    /\ IF listed # << >>
                       THEN pc' = "delete" /\ UNCHANGED resource_ix
                       ELSE pc' = "gather" /\ resource_ix' = resource_ix + 1
                    /\ UNCHANGED << result, exc >>
    /\ UNCHANGED << cloud, projects, check_mode, keep_project, project_id,
                    interfaces, j, floating_ip, warnings >>

\* delete_resources, line 58: delete_func(res.id)
DeleteDirect ==
    /\ pc = "delete"
    /\ i <= Len(resources_info)
    /\ resource \notin {"port", "router"}
    /\ \E o \in Outcomes :
        LET m == delete_method(resource)
            res == resources_info[i]
            e == SdkError(o, m, res.id)
        IN  /\ Logged(Call(m, res.id, "", "", FALSE, o, << >>), o)
            /\ IF o # "ok"
               THEN /\ Abort(e, WrapDelete(resource, e))
                    /\ UNCHANGED << cloud, i >>
               ELSE /\ cloud' = SdkRemove(cloud, m, res.id)
                    /\ i' = i + 1
                    /\ UNCHANGED << pc, result, exc >>
    /\ UNCHANGED << projects, check_mode, keep_project, project_id, resource_ix,
                    resources_info, interfaces, j, floating_ip, warnings >>

\* delete_resources returns: main goes on to the next kind
NextResource ==
    /\ pc = "delete"
    /\ i > Len(resources_info)
    /\ pc' = "gather"
    /\ resource_ix' = resource_ix + 1
    /\ UNCHANGED << cloud, projects, check_mode, keep_project, project_id,
                    resources_info, i, interfaces, j, floating_ip, calls,
                    warnings, result, exc, faults >>

\* handle_port_deletion, lines 66-69
PortRemoveInterface ==
    /\ pc = "delete"
    /\ i <= Len(resources_info)
    /\ resource = "port"
    /\ PortBranch(resources_info[i]) = "router_interface"
    /\ \E o \in Outcomes :
        LET port == resources_info[i]
            router_id == port.device_id
            e == SdkError(o, "remove_interface_from_router", router_id)
        IN  /\ Logged(Call("remove_interface_from_router", router_id,
                           "port_id", port.id, FALSE, o, << >>), o)
            /\ IF o # "ok"
               THEN PortRaise(port, e) /\ UNCHANGED cloud
               ELSE /\ cloud' = SdkDetach(cloud, router_id, port.id)
                    /\ pc' = "delete_port"
                    /\ UNCHANGED << i, warnings, result, exc >>
    /\ UNCHANGED << projects, check_mode, keep_project, project_id, resource_ix,
                    resources_info, interfaces, j, floating_ip >>

\* handle_port_deletion, lines 70-73
PortClearGateway ==
    /\ pc = "delete"
    /\ i <= Len(resources_info)
    /\ resource = "port"
    /\ PortBranch(resources_info[i]) = "router_gateway"
    /\ \E o \in Outcomes :
        LET port == resources_info[i]
            router_id == port.device_id
            e == SdkError(o, "update_router", router_id)
        IN  /\ Logged(Call("update_router", router_id,
                           "external_gateway_info", None, FALSE, o, << >>), o)
            /\ IF o # "ok"
               THEN PortRaise(port, e) /\ UNCHANGED cloud
               ELSE /\ cloud' = SdkClearGateway(cloud, router_id)
                    /\ pc' = "delete_port"
                    /\ UNCHANGED << i, warnings, result, exc >>
    /\ UNCHANGED << projects, check_mode, keep_project, project_id, resource_ix,
                    resources_info, interfaces, j, floating_ip >>

\* handle_port_deletion, lines 74-76: look the floating IP up
PortFindIp ==
    /\ pc = "delete"
    /\ i <= Len(resources_info)
    /\ resource = "port"
    /\ PortBranch(resources_info[i]) = "floatingip"
    /\ LET port == resources_info[i] IN
        IF port.fixed_ips = << >>
        THEN \* port.fixed_ips[0] raises IndexError before any call
             /\ PortRaise(port, [type |-> "IndexError",
                                 msg |-> << "list index out of range" >>])
             /\ UNCHANGED << calls, faults, floating_ip >>
        ELSE \E o \in Outcomes :
             LET addr == FirstFixedIp(port)
                 found == SdkFindIp(cloud, addr)
                 e == SdkError(o, "find_ip", addr)
             IN  IF o # "ok"
                 THEN /\ Logged(Call("find_ip", addr, "", "", FALSE, o, << >>), o)
                      /\ PortRaise(port, e)
                      /\ UNCHANGED floating_ip
                 ELSE IF found = << >>
                 THEN \* find_ip returns None: floating_ip.id raises AttributeError
                      /\ Logged(Call("find_ip", addr, "", "", FALSE, "none", << >>), o)
                      /\ PortRaise(port, [type |-> "AttributeError",
                             msg |-> << "'NoneType' object has no attribute 'id'" >>])
                      /\ UNCHANGED floating_ip
                 ELSE /\ Logged(Call("find_ip", addr, "", "", FALSE, o, found), o)
                      /\ floating_ip' = found[1]
                      /\ pc' = "update_ip"
                      /\ UNCHANGED << i, warnings, result, exc >>
    /\ UNCHANGED << cloud, projects, check_mode, keep_project, project_id,
                    resource_ix, resources_info, interfaces, j >>

\* handle_port_deletion, line 77
PortUpdateIp ==
    /\ pc = "update_ip"
    /\ \E o \in Outcomes :
        LET port == resources_info[i]
            e == SdkError(o, "update_ip", floating_ip.id)
        IN  /\ Logged(Call("update_ip", floating_ip.id, "port_id", None, FALSE, o, << >>), o)
            /\ IF o # "ok"
               THEN PortRaise(port, e) /\ UNCHANGED cloud
               ELSE /\ cloud' = SdkDisassociate(cloud, floating_ip.id)
                    /\ pc' = "delete_port"
                    /\ UNCHANGED << i, warnings, result, exc >>
    /\ UNCHANGED << projects, check_mode, keep_project, project_id, resource_ix,
                    resources_info, interfaces, j, floating_ip >>

\* handle_port_deletion, line 78
PortDelete ==
    /\ \/ pc = "delete_port"
       \/ /\ pc = "delete"
          /\ i <= Len(resources_info)
          /\ resource = "port"
          /\ PortBranch(resources_info[i]) = "plain"
    /\ \E o \in Outcomes :
        LET port == resources_info[i]
            e == SdkError(o, "delete_port", port.id)
        IN  /\ Logged(Call("delete_port", port.id, "", "", FALSE, o, << >>), o)
            /\ IF o # "ok"
               THEN PortRaise(port, e) /\ UNCHANGED cloud
               ELSE /\ cloud' = SdkRemove(cloud, "delete_port", port.id)
                    /\ i' = i + 1
                    /\ pc' = "delete"
                    /\ UNCHANGED << warnings, result, exc >>
    /\ UNCHANGED << projects, check_mode, keep_project, project_id, resource_ix,
                    resources_info, interfaces, j, floating_ip >>

\* handle_router_deletion, line 84
RouterListPorts ==
    /\ pc = "delete"
    /\ i <= Len(resources_info)
    /\ resource = "router"
    /\ \E o \in Outcomes :
        LET router == resources_info[i]
            e == SdkError(o, "ports", "")
        IN  /\ Logged(Call("ports", "", "device_id", router.id, FALSE, o,
                            IF o = "ok"
                            THEN SdkList(cloud, "ports", "device_id", router.id)
                            ELSE << >>), o)
            /\ IF o # "ok"
               THEN /\ Abort(e, WrapDelete("router", e))
                    /\ UNCHANGED << interfaces, j >>
               ELSE /\ interfaces' = SdkList(cloud, "ports", "device_id", router.id)
                    /\ j' = 1
                    /\ pc' = "router_interfaces"
                    /\ UNCHANGED << result, exc >>
    /\ UNCHANGED << cloud, projects, check_mode, keep_project, project_id,
                    resource_ix, resources_info, i, floating_ip, warnings >>

\* handle_router_deletion, lines 85-87
RouterRemoveInterface ==
    /\ pc = "router_interfaces"
    /\ ~InterfacesDone(interfaces, j)
    /\ j <= Len(interfaces)
    /\ \E o \in Outcomes :
        LET router == resources_info[i]
            iface == interfaces[j]
            e == SdkError(o, "remove_interface_from_router", router.id)
        IN  /\ Logged(Call("remove_interface_from_router", router.id,
                           "port_id", iface.id, FALSE, o, << >>), o)
            /\ IF o # "ok"
               THEN /\ Abort(e, WrapDelete("router", e))
                    /\ UNCHANGED << cloud, j >>
               ELSE /\ cloud' = SdkDetach(cloud, router.id, iface.id)
                    /\ j' = j + 1
                    /\ UNCHANGED << pc, result, exc >>
    /\ UNCHANGED << projects, check_mode, keep_project, project_id, resource_ix,
                    resources_info, i, interfaces, floating_ip, warnings >>

\* A conflict on the router delete passed over like the one on a port delete
RouterDelete_Tolerant ==
    /\ pc = "router_interfaces"
    /\ InterfacesDone(interfaces, j)
    /\ \E o \in Outcomes :
        LET router == resources_info[i]
            e == SdkError(o, "delete_router", router.id)
        IN  /\ Logged(Call("delete_router", router.id, "", "", FALSE, o, << >>), o)
            /\ IF o = "ConflictException"
               THEN /\ i' = i + 1
                    /\ pc' = "delete"
                    /\ UNCHANGED << cloud, result, exc >>
               ELSE IF o # "ok"
               THEN /\ Abort(e, WrapDelete("router", e))
                    /\ UNCHANGED << cloud, i >>
               ELSE /\ cloud' = SdkRemove(cloud, "delete_router", router.id)
                    /\ i' = i + 1
                    /\ pc' = "delete"
                    /\ UNCHANGED << result, exc >>
    /\ UNCHANGED << projects, check_mode, keep_project, project_id, resource_ix,
                    resources_info, interfaces, j, floating_ip, warnings >>

\* handle_router_deletion, line 88
RouterDelete ==
    /\ pc = "router_interfaces"
    /\ InterfacesDone(interfaces, j)
    /\ \E o \in Outcomes :
        LET router == resources_info[i]
            e == SdkError(o, "delete_router", router.id)
        IN  /\ Logged(Call("delete_router", router.id, "", "", FALSE, o, << >>), o)
            /\ IF o # "ok"
               THEN /\ Abort(e, WrapDelete("router", e))
                    /\ UNCHANGED << cloud, i >>
               ELSE /\ cloud' = SdkRemove(cloud, "delete_router", router.id)
                    /\ i' = i + 1
                    /\ pc' = "delete"
                    /\ UNCHANGED << result, exc >>
    /\ UNCHANGED << projects, check_mode, keep_project, project_id, resource_ix,
                    resources_info, interfaces, j, floating_ip, warnings >>

\* The project deleted whatever keep_project says
DeleteProject_Always ==
    /\ pc = "gather"
    /\ resource_ix > Len(RESOURCES)
    /\ \E o \in Outcomes :
        LET e == SdkError(o, "delete_project", project_id)
        IN  /\ Logged(Call("delete_project", project_id, "", "", FALSE, o, << >>), o)
            /\ IF o # "ok"
               THEN Abort(e, e.msg) /\ UNCHANGED projects
               ELSE /\ projects' = {p \in projects : p.id # project_id}
                    /\ pc' = "done"
                    /\ result' = exit_json(TRUE, PurgedMsg(project_name))
                    /\ UNCHANGED exc
    /\ UNCHANGED << cloud, check_mode, keep_project, project_id, resource_ix,
                    resources_info, i, interfaces, j, floating_ip, warnings >>

\* main, lines 127-131 with keep_project false
DeleteProject ==
    /\ pc = "gather"
    /\ resource_ix > Len(RESOURCES)
    /\ ~keep_project
    /\ \E o \in Outcomes :
        LET e == SdkError(o, "delete_project", project_id)
        IN  /\ Logged(Call("delete_project", project_id, "", "", FALSE, o, << >>), o)
            /\ IF o # "ok"
               THEN Abort(e, e.msg) /\ UNCHANGED projects
               ELSE /\ projects' = {p \in projects : p.id # project_id}
                    /\ pc' = "done"
                    /\ result' = exit_json(TRUE, PurgedMsg(project_name))
                    /\ UNCHANGED exc
    /\ UNCHANGED << cloud, check_mode, keep_project, project_id, resource_ix,
                    resources_info, i, interfaces, j, floating_ip, warnings >>

\* The run never reporting when the project is kept
KeepProject_NoExit ==
    /\ pc = "gather"
    /\ resource_ix > Len(RESOURCES)
    /\ keep_project
    /\ pc' = "gather"
    /\ result' = result
    /\ UNCHANGED << cloud, projects, check_mode, keep_project, project_id,
                    resource_ix, resources_info, i, interfaces, j, floating_ip,
                    calls, warnings, exc, faults >>

\* main, lines 127-131 with keep_project true
KeepProject ==
    /\ pc = "gather"
    /\ resource_ix > Len(RESOURCES)
    /\ keep_project
    /\ pc' = "done"
    /\ result' = exit_json(TRUE, PurgedMsg(project_name))
    /\ UNCHANGED << cloud, projects, check_mode, keep_project, project_id,
                    resource_ix, resources_info, i, interfaces, j, floating_ip,
                    calls, warnings, exc, faults >>

Next ==
    \/ FindProject
    \/ GatherResourceInfo
    \/ DeleteDirect
    \/ NextResource
    \/ PortRemoveInterface
    \/ PortClearGateway
    \/ PortFindIp
    \/ PortUpdateIp
    \/ PortDelete
    \/ RouterListPorts
    \/ RouterRemoveInterface
    \/ RouterDelete
    \/ DeleteProject
    \/ KeepProject

Spec == Init /\ [][Next]_vars

\* Every step of the run moves its position or issues a call
progress == << pc, calls >>

\* The run as a sequential program whose remote calls each return or raise:
\* while a step is possible, one is taken
FairSpec == Init /\ [][Next]_vars /\ WF_progress(Next)

-----------------------------------------------------------------------------
(* A second invocation *)

\* A second invocation of main with the same parameters, after a first one
\* that reported success: a fresh process against the cloud as the first left
\* it. The history keeps what the first invocation reported and left behind.
Reinvoke ==
    /\ pc = "done"
    /\ ~result.failed
    /\ \A n \in 1..Len(calls) : calls[n].method # "main"
    /\ calls' = Append(calls, Call("main", project_name, "", "", FALSE, "ok",
                                   << [ result |-> result, cloud |-> cloud,
                                        projects |-> projects ] >>))
    /\ pc' = "find_project"
    /\ project_id' = None
    /\ resource_ix' = 1
    /\ resources_info' = << >>
    /\ i' = 1
    /\ interfaces' = << >>
    /\ j' = 1
    /\ floating_ip' = NoFloatingIp
    /\ warnings' = << >>
    /\ result' = NoResult
    /\ exc' = NoException
    /\ UNCHANGED << cloud, projects, check_mode, keep_project, faults >>

NextTwice ==
    \/ Next
    \/ Reinvoke

SpecTwice == Init /\ [][NextTwice]_vars

-----------------------------------------------------------------------------
(* Reading the history of calls *)

Range(f) == {f[n] : n \in DOMAIN f}

\* The place of each kind in the order server, volume, snapshot, image, port,
\* network, subnet, router, security_group, floating_ip, keypair, stack
Pos ==
    [ server |-> 1, volume |-> 2, snapshot |-> 3, image |-> 4, port |-> 5,
      network |-> 6, subnet |-> 7, router |-> 8, security_group |-> 9,
      floating_ip |-> 10, keypair |-> 11, stack |-> 12 ]

ListMethods == DOMAIN SdkCollection

DeleteMethods == DOMAIN SdkDelete

IsEnumeration(c) ==
    (c.key = "project_id" \/ c.key = "owner") /\ c.method \in ListMethods

IsDelete(c) == c.key = "" /\ c.method \in DeleteMethods

IsKindCall(c) == IsEnumeration(c) \/ IsDelete(c)

CallKind(c) ==
    IF IsEnumeration(c) THEN SdkCollection[c.method] ELSE SdkDelete[c.method]

Raised(c) == c.outcome \in Raises

\* The enumeration and delete calls of the history, in the order issued
KindCalls == SelectSeq(calls, IsKindCall)

\* The ports enumerated for the project before call number b
PortsEnumeratedBefore(b) ==
    UNION { Range(calls[a].returned) :
            a \in {n \in 1..(b - 1) : IsEnumeration(calls[n]) /\ calls[n].method = "ports"} }

DeletedKinds == {CallKind(calls[n]) : n \in {m \in 1..Len(calls) : IsDelete(calls[m])}}

-----------------------------------------------------------------------------
(* Claims *)

\* C1: the enumeration and delete calls of a run follow the order server,
\* volume, snapshot, image, port, network, subnet, router, security_group,
\* floating_ip, keypair, stack: each such call is of the same kind as the one
\* before it or of a later kind, an enumeration call always opens a new kind,
\* and a delete call follows the enumeration, which returned, or an earlier
\* delete call of its own kind.
C1_KindOrder ==
    LET K == KindCalls IN
    \A n \in 1..Len(K) :
        /\ n > 1 => Pos[CallKind(K[n - 1])] <= Pos[CallKind(K[n])]
        /\ (n > 1 /\ IsEnumeration(K[n])) =>
               Pos[CallKind(K[n - 1])] < Pos[CallKind(K[n])]
        /\ IsDelete(K[n]) =>
               /\ n > 1
               /\ CallKind(K[n - 1]) = CallKind(K[n])
               /\ IsEnumeration(K[n - 1]) => K[n - 1].outcome = "ok"

C1_Witness ==
    /\ pc = "done"
    /\ ~result.failed
    /\ {"image", "port", "router", "floating_ip"} \subseteq DeletedKinds

\* C2: a delete_port call for an enumerated port owned by
\* network:router_interface comes after a remove_interface_from_router call
\* with the port's device_id as router and the port as interface that returned.
C2_InterfaceRemovedFirst ==
    \A b \in 1..Len(calls) :
        calls[b].method = "delete_port" =>
            \A p \in PortsEnumeratedBefore(b) :
                (p.id = calls[b].id /\ p.device_owner = "network:router_interface") =>
                    \E a \in 1..(b - 1) :
                        /\ calls[a].method = "remove_interface_from_router"
                        /\ calls[a].id = p.device_id
                        /\ calls[a].key = "port_id"
                        /\ calls[a].value = p.id
                        /\ calls[a].outcome = "ok"

C2_Witness ==
    \E b \in 1..Len(calls) :
        /\ calls[b].method = "delete_port"
        /\ \E p \in PortsEnumeratedBefore(b) :
              p.id = calls[b].id /\ p.device_owner = "network:router_interface"

\* C3: a delete_port call for an enumerated port owned by
\* network:router_gateway with device_id R comes after an
\* update_router(R, external_gateway_info=None) call that returned; and a run
\* in which every call returns and the project's ports are exactly one such
\* port calls update_router on R, then delete_port, and does not fail.
GatewayCleared(p, b) ==
    \E a \in 1..(b - 1) :
        /\ calls[a].method = "update_router"
        /\ calls[a].id = p.device_id
        /\ calls[a].key = "external_gateway_info"
        /\ calls[a].value = None
        /\ calls[a].outcome = "ok"

OneGatewayPortRun ==
    /\ pc = "done"
    /\ \A n \in 1..Len(calls) : calls[n].outcome = "ok"
    /\ \E n \in 1..Len(calls) :
          /\ IsEnumeration(calls[n])
          /\ calls[n].method = "ports"
          /\ Len(calls[n].returned) = 1
          /\ calls[n].returned[1].device_owner = "network:router_gateway"

C3_GatewayClearedFirst ==
    /\ \A b \in 1..Len(calls) :
         calls[b].method = "delete_port" =>
            \A p \in PortsEnumeratedBefore(b) :
                (p.id = calls[b].id /\ p.device_owner = "network:router_gateway") =>
                    GatewayCleared(p, b)
    /\ OneGatewayPortRun =>
         /\ ~result.failed
         /\ \E b \in 1..Len(calls) :
               /\ calls[b].method = "delete_port"
               /\ \E p \in PortsEnumeratedBefore(b) :
                     p.id = calls[b].id /\ GatewayCleared(p, b)

C3_Witness ==
    /\ OneGatewayPortRun
    /\ \E b \in 1..Len(calls) : calls[b].method = "delete_port"

\* C4: a delete_port call for an enumerated port owned by network:floatingip
\* comes after a find_ip call with the port's first fixed IP address and an
\* update_ip(port_id=None) call, which returned, on the floating IP found.
C4_FloatingIpDisassociatedFirst ==
    \A b \in 1..Len(calls) :
        calls[b].method = "delete_port" =>
            \A p \in PortsEnumeratedBefore(b) :
                (p.id = calls[b].id /\ p.device_owner = "network:floatingip") =>
                    \E a \in 1..(b - 1) : \E c \in (a + 1)..(b - 1) :
                        /\ p.fixed_ips # << >>
                        /\ calls[a].method = "find_ip"
                        /\ calls[a].id = p.fixed_ips[1]
                        /\ calls[a].returned # << >>
                        /\ calls[c].method = "update_ip"
                        /\ calls[c].id = calls[a].returned[1].id
                        /\ calls[c].key = "port_id"
                        /\ calls[c].value = None
                        /\ calls[c].outcome = "ok"

C4_Witness ==
    \E b \in 1..Len(calls) :
        /\ calls[b].method = "delete_port"
        /\ \E p \in PortsEnumeratedBefore(b) :
              p.id = calls[b].id /\ p.device_owner = "network:floatingip"

\* C5: a delete_router call for router R comes after a ports(device_id=R)
\* listing and after a remove_interface_from_router(R, port) call that
\* returned for every port listed, and when it is issued no port of the cloud
\* has device_id R.
C5_RouterInterfacesRemovedFirst ==
    \A b \in 1..Len(calls) :
        calls[b].method = "delete_router" =>
            /\ \E a \in 1..(b - 1) :
                  /\ calls[a].method = "ports"
                  /\ calls[a].key = "device_id"
                  /\ calls[a].value = calls[b].id
                  /\ calls[a].outcome = "ok"
                  /\ \A n \in 1..Len(calls[a].returned) :
                        \E c \in (a + 1)..(b - 1) :
                            /\ calls[c].method = "remove_interface_from_router"
                            /\ calls[c].id = calls[b].id
                            /\ calls[c].key = "port_id"
                            /\ calls[c].value = calls[a].returned[n].id
                            /\ calls[c].outcome = "ok"
            /\ \A n \in 1..Len(cloud) :
                  cloud[n].kind = "port" => cloud[n].device_id # calls[b].id

C5_Witness ==
    \E b \in 1..Len(calls) :
        /\ calls[b].method = "delete_router"
        /\ \E a \in 1..(b - 1) :
              /\ calls[a].method = "ports"
              /\ calls[a].key = "device_id"
              /\ Len(calls[a].returned) >= 2

\* C6: a ConflictException raised by delete_port is recorded as a warning
\* naming the port and does not make the run fail (a run that fails with it
\* as its last call fails on the next port, whose fixed_ips is empty, before
\* any call).  A run whose only raised calls are such conflicts, and whose
\* floating IP lookups all succeed, enumerates all twelve kinds, issues
\* delete_port for every enumerated port and reports success.
IsPortDeleteConflict(c) ==
    c.method = "delete_port" /\ c.outcome = "ConflictException"

ProjectResolved ==
    Len(calls) >= 1 /\ calls[1].method = "find_project" /\ calls[1].outcome = "ok"

AllKindsEnumerated ==
    \A k \in DOMAIN Pos :
        \E n \in 1..Len(calls) :
            IsEnumeration(calls[n]) /\ CallKind(calls[n]) = k /\ calls[n].outcome = "ok"

OnlyPortDeleteConflicts ==
    /\ ProjectResolved
    /\ ~check_mode
    /\ \A n \in 1..Len(calls) :
          /\ Raised(calls[n]) => IsPortDeleteConflict(calls[n])
          /\ calls[n].method = "find_ip" => calls[n].outcome = "ok"
    /\ \A p \in PortsEnumeratedBefore(Len(calls) + 1) :
          p.device_owner = "network:floatingip" => p.fixed_ips # << >>

C6_PortDeleteConflictTolerated ==
    /\ \A b \in 1..Len(calls) :
         IsPortDeleteConflict(calls[b]) =>
            /\ \E w \in 1..Len(warnings) :
                  /\ warnings[w][1] = "Failed to delete port "
                  /\ warnings[w][2] = calls[b].id
            /\ (b = Len(calls) /\ result.failed) => exc.type = "IndexError"
    /\ (pc = "done" /\ OnlyPortDeleteConflicts) =>
         /\ ~result.failed
         /\ AllKindsEnumerated
         /\ \A p \in PortsEnumeratedBefore(Len(calls) + 1) :
               \E n \in 1..Len(calls) :
                   calls[n].method = "delete_port" /\ calls[n].id = p.id

C6_Witness ==
    /\ pc = "done"
    /\ ~result.failed
    /\ \E b \in 1..Len(calls) :
          /\ IsPortDeleteConflict(calls[b])
          /\ \E c \in (b + 1)..Len(calls) :
                calls[c].method = "delete_port" /\ calls[c].id # calls[b].id
          /\ \E c \in (b + 1)..Len(calls) : calls[c].method = "delete_router"

\* C7: of the calls made while a port is handled, the only raised one that
\* leaves the run going is delete_port raising ConflictException; a raised
\* unwinding call (remove_interface_from_router, update_router, find_ip,
\* update_ip), a conflict included, is the last call of the run and the run
\* reports failure.
IsPortUnwinding(b) ==
    \/ calls[b].method \in {"update_router", "find_ip", "update_ip"}
    \/ /\ calls[b].method = "remove_interface_from_router"
       /\ \A a \in 1..(b - 1) : calls[a].method # "routers"

EndsRunWithFailure(b) ==
    b = Len(calls) /\ pc = "done" /\ result.failed

C7_OnlyPortDeleteConflictTolerated ==
    \A b \in 1..Len(calls) :
        /\ (IsPortUnwinding(b) /\ Raised(calls[b])) => EndsRunWithFailure(b)
        /\ (calls[b].method = "delete_port" /\ Raised(calls[b])
              /\ ~IsPortDeleteConflict(calls[b])) => EndsRunWithFailure(b)

\* C8: a fatal error, that is a raised enumeration call, a raised call of a
\* deletion other than delete_port raising ConflictException, or a floating IP
\* lookup that finds nothing, is the last call of the run: the run reports
\* failure with a message ending in the error's message, the project is not
\* deleted, and every resource whose delete call returned is gone.
IsFatal(c) ==
    \/ Raised(c) /\ ~IsPortDeleteConflict(c)
    \/ c.method = "find_ip" /\ c.outcome = "none"

EndsWith(msg, tail) ==
    /\ Len(msg) >= Len(tail)
    /\ SubSeq(msg, Len(msg) - Len(tail) + 1, Len(msg)) = tail

DeletedStayDeleted ==
    \A b \in 1..Len(calls) :
        (IsDelete(calls[b]) /\ calls[b].outcome = "ok") =>
            \A n \in 1..Len(cloud) : cloud[n].id # calls[b].id

AbortsAt(b) ==
    /\ EndsRunWithFailure(b)
    /\ Raised(calls[b]) =>
          EndsWith(result.msg, << calls[b].outcome, calls[b].method, calls[b].id >>)
    /\ \A n \in 1..Len(calls) :
          calls[n].method = "delete_project" => calls[n].outcome # "ok"

C8_FirstFatalErrorAborts ==
    /\ \A b \in 1..Len(calls) : IsFatal(calls[b]) => AbortsAt(b)
    /\ DeletedStayDeleted

\* C9: when find_project finds no project the run reports failure with a
\* message containing the project name and find_project is its only call,
\* in check mode or not.
C9_ProjectNotFound ==
    (Len(calls) >= 1 /\ calls[1].method = "find_project" /\ calls[1].outcome = "none") =>
        /\ pc = "done"
        /\ result.failed
        /\ project_name \in Range(result.msg)
        /\ Len(calls) = 1

C9_Witness ==
    /\ pc = "done"
    /\ check_mode
    /\ Len(calls) = 1
    /\ calls[1].outcome = "none"

\* C10: delete_project is called exactly in the runs with keep_project false,
\* outside check mode, in which all twelve kinds were enumerated and no call
\* before it ended the run; it is the last call of the run.  With keep_project
\* true and every kind enumerated empty there is no delete call, the project
\* still exists and the run reports success.
ProjectDeleteCalled ==
    \E b \in 1..Len(calls) : calls[b].method = "delete_project"

FailedBeforeProjectDelete ==
    result.failed /\ calls[Len(calls)].method # "delete_project"

AllKindsEmpty ==
    \A k \in DOMAIN Pos :
        \E n \in 1..Len(calls) :
            /\ IsEnumeration(calls[n])
            /\ CallKind(calls[n]) = k
            /\ calls[n].outcome = "ok"
            /\ calls[n].returned = << >>

C11_CheckModeCallsNothing ==
    (check_mode /\ ProjectResolved) =>
        /\ Len(calls) = 1
        /\ pc = "done"
        /\ result = [failed |-> FALSE, changed |-> TRUE,
                     msg |-> << "Project resources would be purged in check mode" >>]
        /\ \E p \in projects : p.name = project_name

C11_Witness ==
    /\ check_mode
    /\ ~keep_project
    /\ ProjectResolved
    /\ pc = "done"
    /\ \E n \in 1..Len(cloud) : cloud[n].kind = "port" /\ cloud[n].project_id = project_id

\* The project a resource record belongs to (images carry it as owner)
OwningProject(r) ==
    IF r.kind = "image" THEN r.owner ELSE r.project_id

\* Every resource record the run has seen or the cloud still holds
KnownRecords ==
    Range(cloud) \cup UNION {Range(calls[n].returned) : n \in 1..Len(calls)}

IsMutation(c) ==
    \/ IsDelete(c)
    \/ c.method \in {"remove_interface_from_router", "update_router", "update_ip"}

\* The identifiers a mutating call acts on: the resource it names and, for an
\* interface removal, the port it detaches
Targets(c) ==
    IF c.method = "remove_interface_from_router" THEN {c.id, c.value} ELSE {c.id}

\* C12: every mutating call (delete, router-interface removal, gateway clear,
\* floating-IP disassociation) targets only resources owned by the resolved
\* project, those reached through port and router unwinding included.
C12_OnlyOwnProjectMutated ==
    LET K == KnownRecords
    IN  \A b \in 1..Len(calls) :
            IsMutation(calls[b]) =>
                \A r \in K : r.id \in Targets(calls[b]) => OwningProject(r) = project_id

\* The resources the enumeration calls of the run returned
EnumeratedRecords ==
    UNION {Range(calls[n].returned) : n \in {m \in 1..Len(calls) : IsEnumeration(calls[m])}}

ReportsSuccess ==
    pc = "done" /\ ~result.failed

ProjectDeleted ==
    \E n \in 1..Len(calls) :
        calls[n].method = "delete_project" /\ calls[n].outcome = "ok"

\* C13: when the run reports success, and when the project has been deleted,
\* no resource enumerated for the project during the run remains in the
\* cloud, a port whose deletion raised a tolerated conflict included.
C13_SuccessLeavesNothing ==
    (ReportsSuccess \/ ProjectDeleted) =>
        LET E == EnumeratedRecords
        IN  \A n \in 1..Len(cloud) :
                \A r \in E : ~(r.id = cloud[n].id /\ r.kind = cloud[n].kind)

\* What the first of two invocations reported and left behind
FirstInvocation ==
    LET n == CHOOSE m \in 1..Len(calls) : calls[m].method = "main"
    IN  calls[n].returned[1]

SecondInvocationDone ==
    /\ pc = "done"
    /\ \E n \in 1..Len(calls) : calls[n].method = "main"

NoCallRaised ==
    \A n \in 1..Len(calls) : ~Raised(calls[n])

\* C14: the purge is idempotent: a second invocation with the same inputs
\* after a successful first one, no remote call raising in either, reports the
\* same outcome and leaves the same cloud as the first, whatever keep_project.
C14_Idempotent ==
    (SecondInvocationDone /\ NoCallRaised) =>
        /\ result = FirstInvocation.result
        /\ cloud = FirstInvocation.cloud
        /\ projects = FirstInvocation.projects

\* The listing calls of gather_resource_info: every list call but the
\* by-device listing of a router's ports
IsGatherCall(c) ==
    c.method \in ListMethods /\ c.key # "device_id"

\* C15: the enumeration of image filters by owner, the enumeration of every
\* other kind by project_id, both with the resolved project's identifier as
\* value, and exactly servers, volumes and snapshots are listed with details.
C15_EnumerationFilters ==
    \A n \in 1..Len(calls) :
        IsGatherCall(calls[n]) =>
            /\ calls[n].key = (IF calls[n].method = "images" THEN "owner" ELSE "project_id")
            /\ calls[n].value = project_id
            /\ project_id # None
            /\ calls[n].details = (calls[n].method \in {"servers", "volumes", "snapshots"})

C15_Witness ==
    /\ \E n \in 1..Len(calls) :
          /\ calls[n].method = "images"
          /\ calls[n].key = "owner"
          /\ calls[n].outcome = "ok"
          /\ calls[n].returned # << >>
    /\ \E n \in 1..Len(calls) : calls[n].method = "snapshots" /\ calls[n].details
    /\ \E n \in 1..Len(calls) : calls[n].method = "keypairs" /\ ~calls[n].details

\* The calls of handle_router_deletion: the by-device port listing, the
\* interface removals that follow the enumeration of routers, the router delete
IsRouterHandling(b) ==
    \/ calls[b].method = "ports" /\ calls[b].key = "device_id"
    \/ calls[b].method = "delete_router"
    \/ /\ calls[b].method = "remove_interface_from_router"
       /\ \E a \in 1..(b - 1) : calls[a].method = "routers"

\* C16: an error raised while unwinding or deleting a router, a conflict
\* included, is fatal: it is the last call of the run, which ends with the
\* failure report "Failed to delete routers: ..." carrying the error; no
\* later router or kind is processed, no warning is recorded for it and the
\* project is not deleted.
C16_RouterErrorsFatal ==
    \A b \in 1..Len(calls) :
        (IsRouterHandling(b) /\ Raised(calls[b])) =>
            /\ EndsRunWithFailure(b)
            /\ result.msg = << "Failed to delete ", "router", "s: ",
                               calls[b].outcome, calls[b].method, calls[b].id >>
            /\ exc.type = calls[b].outcome
            /\ \A n \in 1..Len(calls) : calls[n].method # "delete_project"

C16_Witness ==
    /\ pc = "done"
    /\ result.failed
    /\ Len(calls) > 2
    /\ calls[Len(calls)].method = "delete_router"
    /\ calls[Len(calls)].outcome = "ConflictException"
    /\ calls[Len(calls) - 1].method = "remove_interface_from_router"
    /\ calls[Len(calls) - 1].outcome = "ok"

\* The delete calls of the run, the project's included
DeleteCalls ==
    {n \in 1..Len(calls) : IsDelete(calls[n]) \/ calls[n].method = "delete_project"}

\* C17: within one run no delete operation is invoked twice for the same
\* resource, whether the first attempt returned, raised a tolerated conflict
\* or raised a fatal error.
C17_NoDeleteRetried ==
    LET D == DeleteCalls
    IN  \A a \in D : \A b \in D :
            a < b => ~(calls[a].method = calls[b].method /\ calls[a].id = calls[b].id)

C17_Witness ==
    /\ pc = "done"
    /\ \E a \in DeleteCalls : \E b \in DeleteCalls :
          /\ a < b
          /\ calls[a].method = "delete_port"
          /\ calls[a].outcome = "ConflictException"
          /\ calls[b].outcome = "ok"
    /\ Raised(calls[Len(calls)])
    /\ Len(calls) \in DeleteCalls

RaisedCalls ==
    {n \in 1..Len(calls) : Raised(calls[n])}

SuccessReport ==
    /\ result \in {exit_json(TRUE, CheckModeMsg), exit_json(TRUE, PurgedMsg(project_name))}
    /\ exc = NoException
    /\ Cardinality(RaisedCalls) = Len(warnings)

FailureReport ==
    /\ result.failed
    /\ ~result.changed
    /\ result.msg # << >>
    /\ \/ result.msg = NotFoundMsg(project_name) /\ exc = NoException
       \/ exc # NoException /\ EndsWith(result.msg, exc.msg)

\* Nothing is reported while the run goes on; a finished run carries either
\* the success report or the failure report
OneOutcome ==
    /\ pc # "done" => result = NoResult /\ exc = NoException
    /\ pc = "done" => (SuccessReport \/ FailureReport)
    /\ ~(SuccessReport /\ FailureReport)

FloatingIpPorts ==
    {p \in PortsEnumeratedBefore(Len(calls) + 1) : p.device_owner = "network:floatingip"}

PortDeleteCalled(p) ==
    \E n \in 1..Len(calls) : calls[n].method = "delete_port" /\ calls[n].id = p.id

\* C19: for a port whose device_owner is network:floatingip, a lookup by its
\* first fixed address that finds no floating IP is the last call of the run,
\* which ends with the failure "Failed to delete ports: ..." and no warning
\* for it; a port with no fixed address is never looked up; in both cases the
\* port delete is not called for the port, the run goes on to no later kind
\* and, once over, has reported failure.
C19_MissingFloatingIpFatal ==
    LET F == FloatingIpPorts
    IN  /\ \A b \in 1..Len(calls) :
              (calls[b].method = "find_ip" /\ calls[b].outcome = "none") =>
                  /\ EndsRunWithFailure(b)
                  /\ exc.type = "AttributeError"
                  /\ result.msg = << "Failed to delete ", "port", "s: " >> \o exc.msg
                  /\ \A p \in F :
                        (p.fixed_ips # << >> /\ p.fixed_ips[1] = calls[b].id) =>
                            ~PortDeleteCalled(p)
        /\ \A p \in F :
              p.fixed_ips = << >> =>
                  /\ ~PortDeleteCalled(p)
                  /\ \A n \in 1..Len(calls) : calls[n].method # "networks"
                  /\ pc = "done" => (result.failed /\ exc # NoException)

C19_Witness ==
    /\ pc = "done"
    /\ result.failed
    /\ Len(calls) > 1
    /\ calls[Len(calls)].method = "find_ip"
    /\ calls[Len(calls)].outcome = "none"
    /\ calls[Len(calls) - 1].method = "delete_port"
    /\ calls[Len(calls) - 1].outcome = "ok"

====
